---- MODULE Spec2Model ----
(***************************************************************************)
(* A model of repair_gdf_jc (src/repair_gdf_jc_v1_2.py): the repair of a   *)
(* set of polygons with overlaps and gaps.                                 *)
(*                                                                         *)
(* Geometry is modelled on a rectangular grid of cells.  An input polygon  *)
(* is a set of cells, so the faces of the arrangement of the polygon       *)
(* boundaries (the pieces of building_blocks_jc) are the rook-connected    *)
(* sets of cells with one and the same set of owners.  Row 2 of the grid   *)
(* is thin (height EpsLen); every other row has height BigLen, and every   *)
(* column has width ColLen.  Hence areas, shared boundary lengths,         *)
(* bounding boxes, connected components and point contacts are computed    *)
(* exactly.  Two kinds of atoms refine the cells: the corner triangles of  *)
(* a thin cell, which the rook-to-queen disk moves between polygons, and   *)
(* the fragments that the gap closer cuts a hole into.                     *)
(***************************************************************************)
EXTENDS Integers, Sequences, FiniteSets, TLC

NumPolys == 4
GridN == 3
EpsLen == 1
BigLen == 50000
ColLen == 100
MinRook == 10
MaxShare == 2
AreaRatio == 10000

Polys == 1..NumPolys
Cells == 1..(GridN * GridN)

RowOf(c) == ((c - 1) \div GridN) + 1
ColOf(c) == ((c - 1) % GridN) + 1
CellAt(r, c) == IF r \in 1..GridN /\ c \in 1..GridN THEN (r - 1) * GridN + c ELSE 0
RowH(r) == IF r = 2 THEN EpsLen ELSE BigLen
ColW(c) == ColLen

Abs(x) == IF x < 0 THEN -x ELSE x
Max2(a, b) == IF a > b THEN a ELSE b
Min2(a, b) == IF a < b THEN a ELSE b

\* the sum of the second components of a set of pairs
RECURSIVE SumPairs(_)
SumPairs(S) ==
  IF S = {} THEN 0
  ELSE LET x == CHOOSE y \in S : TRUE
       IN x[2] + SumPairs(S \ {x})
\* the sum of the values of a function
SumFn(f) == SumPairs({<< x, f[x] >> : x \in DOMAIN f})

MinOf(S) == CHOOSE x \in S : \A y \in S : x <= y
MaxOf(S) == CHOOSE x \in S : \A y \in S : x >= y

RECURSIVE SortedSeq(_)
SortedSeq(S) == IF S = {} THEN << >> ELSE << MinOf(S) >> \o SortedSeq(S \ {MinOf(S)})

RECURSIVE SortByMin(_)
SortByMin(SS) ==
  IF SS = {} THEN << >>
  ELSE LET f == CHOOSE x \in SS : \A y \in SS : MinOf(x) <= MinOf(y)
       IN << f >> \o SortByMin(SS \ {f})

SeqToSet(s) == {s[i] : i \in 1..Len(s)}

(***************************************************************************)
(* Atoms.  A number below 100 is a cell, a number in 100..9999 is a        *)
(* fragment of the hole cell (number \div 100), and 10000 + 100*c + k is   *)
(* the k-th corner triangle of the thin cell c: k = 1, 2 are the upper     *)
(* and lower triangle at the cell's left edge, k = 3, 4 those at its       *)
(* right edge.                                                             *)
(***************************************************************************)
IsCell(a) == a < 100
IsFrag(a) == a >= 100 /\ a < 10000
IsTri(a) == a >= 10000
HostCell(a) == IF IsCell(a) THEN a ELSE IF IsFrag(a) THEN a \div 100 ELSE (a - 10000) \div 100
TriOf(c, k) == 10000 + 100 * c + k
Tris(c) ==
  IF RowOf(c) # 2 THEN {}
  ELSE {TriOf(c, k) : k \in (IF ColOf(c) > 1 THEN {1, 2} ELSE {})
                           \cup (IF ColOf(c) < GridN THEN {3, 4} ELSE {})}
AtomsOf(S) == S \cup UNION {Tris(c) : c \in S}
Bodies(G) == {a \in G : ~IsTri(a)}
CellsIn(G) == {a \in G : IsCell(a)}

CellArea(c) == RowH(RowOf(c)) * ColW(ColOf(c))

RookAdj(a, b) == Abs(RowOf(a) - RowOf(b)) + Abs(ColOf(a) - ColOf(b)) = 1
CellTouch(a, b) ==
  /\ a # b
  /\ Abs(RowOf(a) - RowOf(b)) <= 1
  /\ Abs(ColOf(a) - ColOf(b)) <= 1
EdgeLen(a, b) == IF RowOf(a) = RowOf(b) THEN RowH(RowOf(a)) ELSE ColW(ColOf(a))

VARIABLES
  owners,             \* the input: cell -> set of input polygons covering it
  close_gaps,         \* argument of repair_gdf_jc
  min_rook_length,    \* argument of repair_gdf_jc; 0 stands for None
  pc,                 \* position in repair_gdf_jc
  tower,              \* overlap_tower: degree -> sequence of pieces
  holes,              \* holes_df: sequence of hole records
  geom,               \* geometries_df["geometry"]: polygon -> set of atoms
  dgeom,              \* geometries_disconnected_df["geometry"]
  flagged,            \* geometries_disconnected_df.index
  deg,                \* the degree the Reconstructor is working on
  unused,             \* overlaps_df_unused_indices of that degree
  queue,              \* what the current loop still has to visit
  gbox,               \* bounding boxes held by the current STRtree
  links,              \* boundary lines between fragments and other atoms
  fragArea,           \* area of every fragment
  nextId,             \* counter for fragment numbers
  newHoles,           \* holes_to_add of the current round
  activity,           \* activity_this_round
  adjs,               \* small_adj_df: the short adjacency segments
  queened,            \* cell edges already replaced by a point
  log,                \* what has been printed
  lost,               \* atoms dropped from a polygon and given to nobody
  stages,             \* the stages entered so far, in order
  raised,             \* the exception that ended the run, or "none"
  trial               \* what partial_fill_data_jc did for the hole just handled

vars == << owners, close_gaps, min_rook_length, pc, tower, holes, geom, dgeom,
           flagged, deg, unused, queue, gbox, links, fragArea, nextId,
           newHoles, activity, adjs, queened, log, lost, stages, raised,
           trial >>

(***************************************************************************)
(* Geometry of sets of atoms.                                              *)
(***************************************************************************)
LinkLen(a, b) ==
  LET L == {l \in links : (l[1] = a /\ l[2] = b) \/ (l[1] = b /\ l[2] = a)}
  IN IF L = {} THEN 0 ELSE MaxOf({l[3] : l \in L})

\* length of the boundary line two body atoms share
SharedAtomLen(a, b) ==
  IF a = b THEN 0
  ELSE IF IsCell(a) /\ IsCell(b)
       THEN IF RookAdj(a, b) /\ ~({a, b} \in queened) THEN EdgeLen(a, b) ELSE 0
       ELSE LinkLen(a, b)

\* two body atoms share at least a point
AtomTouch(a, b) ==
  IF IsCell(a) /\ IsCell(b) THEN CellTouch(a, b)
  ELSE a # b /\ (LinkLen(a, b) > 0 \/ HostCell(a) = HostCell(b)
                 \/ CellTouch(HostCell(a), HostCell(b)))

Joined(a, b) == SharedAtomLen(a, b) > 0 \/ (IsCell(a) /\ IsCell(b) /\ RookAdj(a, b))

RECURSIVE Reach(_, _, _)
Reach(S, frontier, seen) ==
  IF frontier = {} THEN seen
  ELSE LET nxt == {b \in S \ seen : \E a \in frontier : Joined(a, b)}
       IN Reach(S, nxt, seen \cup nxt)

RECURSIVE ComponentsOf(_)
ComponentsOf(S) ==
  IF S = {} THEN {}
  ELSE LET K == Reach(S, {MinOf(S)}, {MinOf(S)})
       IN {K} \cup ComponentsOf(S \ K)

\* the connected components of a geometry, in the order of the MultiPolygon
Components(G) == SortByMin(ComponentsOf(Bodies(G)))
num_components_jc(G) == Cardinality(ComponentsOf(Bodies(G)))

AtomArea(a) ==
  IF IsTri(a) THEN 1
  ELSE IF IsCell(a) THEN CellArea(a) - Cardinality(Tris(a))
  ELSE fragArea[a]
GeomArea(G) == SumFn([a \in G |-> AtomArea(a)])

\* a set of body atoms of G together with the triangles G holds of them
Part(K, G) == {a \in G : a \in K \/ (IsTri(a) /\ HostCell(a) \in K)}
PartArea(K, G) == GeomArea(Part(K, G))

SharedLen(S, T) ==
  SumFn([p \in {q \in Bodies(S) \X Bodies(T) : SharedAtomLen(q[1], q[2]) > 0}
           |-> SharedAtomLen(p[1], p[2])])
Touches(S, T) == \E a \in Bodies(S), b \in Bodies(T) : AtomTouch(a, b)

\* bounding box << top, bottom, left, right >> in grid lines; << >> if empty
BBox(G) ==
  LET H == {HostCell(a) : a \in G}
  IN IF H = {} THEN << >>
     ELSE << MinOf({RowOf(c) : c \in H}) - 1, MaxOf({RowOf(c) : c \in H}),
             MinOf({ColOf(c) : c \in H}) - 1, MaxOf({ColOf(c) : c \in H}) >>
BoxMeet(b1, b2) ==
  /\ b1 # << >>
  /\ b2 # << >>
  /\ b1[1] <= b2[2]
  /\ b2[1] <= b1[2]
  /\ b1[3] <= b2[4]
  /\ b2[3] <= b1[4]

(***************************************************************************)
(* The input.                                                              *)
(***************************************************************************)
OrigCells(p) == {c \in Cells : p \in owners[c]}
OrigGeom(p) == AtomsOf(OrigCells(p))
Present == {p \in Polys : OrigCells(p) # {}}

RECURSIVE CellReach(_, _, _)
CellReach(S, frontier, seen) ==
  IF frontier = {} THEN seen
  ELSE LET nxt == {b \in S \ seen : \E a \in frontier : RookAdj(a, b)}
       IN CellReach(S, nxt, seen \cup nxt)

OnBorder(c) == RowOf(c) \in {1, GridN} \/ ColOf(c) \in {1, GridN}
FaceOf(own, c) == CellReach({d \in Cells : own[d] = own[c]}, {c}, {c})
Faces(own) == {FaceOf(own, c) : c \in Cells}
Enclosed(F) == \A c \in F : ~OnBorder(c)

RECURSIVE CellComps(_)
CellComps(S) ==
  IF S = {} THEN {}
  ELSE LET K == CellReach(S, {MinOf(S)}, {MinOf(S)})
       IN {K} \cup CellComps(S \ K)

\* every part of an input polygon is a polygon without an interior ring
NoRing(own) ==
  \A p \in Polys : \A K \in CellComps({c \in Cells : p \in own[c]}) :
     \A c \in Cells \ K :
        \E d \in CellReach(Cells \ K, {c}, {c}) : OnBorder(d)

\* every gap enclosed by the input polygons is one cell
SmallHoles(own) ==
  \A F \in Faces(own) :
     ((\A c \in F : own[c] = {}) /\ Enclosed(F)) => Cardinality(F) = 1

\* the layouts the inputs are drawn from: rows of a 3 x 3 block, top to bottom
Bases ==
  { << {1}, {1, 2, 3}, {1}, {}, {1, 2}, {}, {4}, {}, {} >>,
    << {2}, {4}, {4}, {1, 2}, {2}, {4}, {1}, {1, 3}, {1} >>,
    << {1}, {1}, {1}, {2}, {}, {3}, {2}, {2}, {3} >>,
    << {1}, {1}, {2}, {4}, {}, {2}, {4}, {3}, {3} >>,
    << {2}, {2}, {3}, {1}, {}, {4}, {2}, {2}, {} >>,
    << {3}, {3}, {3}, {1}, {2}, {2}, {4}, {4}, {4} >>,
    << {3}, {3}, {1}, {1}, {2}, {2}, {4}, {4}, {4} >>,
    << {1}, {1, 2}, {2}, {1}, {1, 2, 3}, {2, 3}, {3}, {3}, {3} >> }

OwnerSets == {S \in SUBSET Polys : Cardinality(S) <= 3}

Layout(b) ==
  [c \in Cells |-> IF RowOf(c) <= 3 /\ ColOf(c) <= 3
                   THEN b[(RowOf(c) - 1) * 3 + ColOf(c)] ELSE {}]

\* the polygons that touch the hole cell h, by the input alone
RingOwners(own, h) == UNION {own[c] : c \in {d \in Cells : CellTouch(d, h)}}

\* the inputs: a base layout with the owners of one cell replaced
Inputs ==
  {own \in {[Layout(b) EXCEPT ![c] = S] : b \in Bases, c \in Cells, S \in OwnerSets} :
     NoRing(own) /\ SmallHoles(own)}

\* the rook-to-queen converter is modelled on whole cells, so it is not run
\* on an input whose gap the gap closer may cut into fragments
FlagsFor(own, cg, m) ==
  (cg /\ m # 0) =>
     \A h \in Cells : (own[h] = {} /\ Enclosed(FaceOf(own, h))) =>
                        Cardinality(RingOwners(own, h)) <= 3

\* no call of partial_fill_data_jc for the hole just handled
NoTrial ==
  [kind |-> "none", rows |-> 0, pairs |-> << >>, ok |-> {}, tried |-> 0,
   li |-> 0, lj |-> 0]

Init ==
  /\ owners \in Inputs
  /\ \E cg \in BOOLEAN, m \in {0, MinRook} :
        /\ FlagsFor(owners, cg, m)
        /\ close_gaps = cg
        /\ min_rook_length = m
  /\ pc = "start"
  /\ tower = << >>
  /\ holes = << >>
  /\ geom = [p \in Polys |-> {}]
  /\ dgeom = [p \in Polys |-> {}]
  /\ flagged = {}
  /\ deg = 0
  /\ unused = {}
  /\ queue = << >>
  /\ gbox = [p \in Polys |-> << >>]
  /\ links = {}
  /\ fragArea = << >>
  /\ nextId = 1
  /\ newHoles = << >>
  /\ activity = FALSE
  /\ adjs = << >>
  /\ queened = {}
  /\ log = {}
  /\ lost = {}
  /\ stages = << >>
  /\ raised = "none"
  /\ trial = NoTrial

(***************************************************************************)
(* building_blocks_jc: the pieces, their owners, the holes and the tower.  *)
(***************************************************************************)
MaxDegree == MaxOf({Cardinality(owners[c]) : c \in Cells})
PieceOwners(F) == owners[MinOf(F)]
TowerOf(own) ==
  [d \in 1..MaxDegree |->
     SortByMin({F \in Faces(own) : Cardinality(own[MinOf(F)]) = d})]

\* the boundary of a hole cell: its four sides and four corners, in order
HoleItems(h) ==
  LET r == RowOf(h)
      c == ColOf(h)
      side(dr, dc, len) == [atom |-> CellAt(r + dr, c + dc), kind |-> "L", len |-> len]
      corner(dr, dc) == [atom |-> CellAt(r + dr, c + dc), kind |-> "P", len |-> 0]
  IN << side(-1, 0, ColW(c)), corner(-1, 1), side(0, 1, RowH(r)), corner(1, 1),
        side(1, 0, ColW(c)), corner(1, -1), side(0, -1, RowH(r)), corner(-1, -1) >>

\* polygonize returns the bounded faces only: a gap that is open to the
\* outside is no piece, hence no hole
HolesOf(own) ==
  LET hs == SortedSeq({c \in Cells : own[c] = {} /\ Enclosed(FaceOf(own, c))})
  IN [i \in 1..Len(hs) |->
        [id |-> hs[i], parent |-> 0, area |-> CellArea(hs[i]), items |-> HoleItems(hs[i])]]

building_blocks_jc ==
  /\ pc = "start"
  /\ tower' = TowerOf(owners)
  /\ holes' = HolesOf(owners)
  /\ stages' = stages \o << "arrangement", "classify" >>
  /\ pc' = "order1"
  /\ UNCHANGED << owners, close_gaps, min_rook_length, trial, geom, dgeom, flagged, deg,
                  unused, queue, gbox, links, fragArea, nextId, newHoles,
                  activity, adjs, queened, log, lost, raised >>

(***************************************************************************)
(* reconstruct_from_overlap_tower_jc.                                      *)
(***************************************************************************)
PieceAt(d, o) == AtomsOf(tower[d][o])
OwnersAt(d, o) == PieceOwners(tower[d][o])
NumOrig(p) == num_components_jc(OrigGeom(p))

\* a variant that keeps only the first piece of degree 1 of every polygon
Order1GeomFirst(p) ==
  LET I == {i \in 1..Len(tower[1]) : OwnersAt(1, i) = {p}}
  IN AtomsOf(UNION {tower[1][o] : o \in {i \in I : \A j \in I : i <= j}})
\* the geometry every polygon has after the pieces of degree 1 are assigned
Order1Geom(p) ==
  AtomsOf(UNION {tower[1][o] : o \in {i \in 1..Len(tower[1]) : OwnersAt(1, i) = {p}}})

\* the first level of the loop over degrees, or the return if there is none
EnterLevel(d) ==
  IF d <= Len(tower)
  THEN /\ deg' = d
       /\ unused' = 1..Len(tower[d])
       /\ pc' = "claim"
  ELSE /\ deg' = d
       /\ unused' = {}
       /\ pc' = "reconstructed"

assign_order1 ==
  /\ pc = "order1"
  /\ geom' = [p \in Polys |-> Order1Geom(p)]
  /\ flagged' = {p \in Present : num_components_jc(Order1Geom(p)) > NumOrig(p)}
  /\ dgeom' = [p \in Polys |-> IF p \in flagged' THEN Order1Geom(p) ELSE {}]
  /\ EnterLevel(2)
  /\ queue' = SortedSeq(flagged')
  /\ stages' = Append(stages, "reconstruct")
  /\ UNCHANGED << owners, close_gaps, min_rook_length, trial, tower, holes, gbox, links,
                  fragArea, nextId, newHoles, activity, adjs, queened, log,
                  lost, raised >>

\* the loop over possible_overlap_indices for one flagged polygon:
\* st = [G: its geometry, used: the pieces granted, fin: geom_finished]
RECURSIVE Grab(_, _, _)
Grab(g, cand, st) ==
  IF cand = << >> THEN st
  ELSE LET o == Head(cand)
           take == /\ ~st.fin
                   /\ g \in OwnersAt(deg, o)
                   /\ Touches(st.G, PieceAt(deg, o))
                   /\ SharedLen(st.G, PieceAt(deg, o)) > 0
           G2 == st.G \cup PieceAt(deg, o)
       IN Grab(g, Tail(cand),
               IF take
               THEN [G |-> G2, used |-> st.used \cup {o},
                     fin |-> num_components_jc(G2) = NumOrig(g)]
               ELSE st)

\* o_spatial_index.query: the unused pieces whose box meets the polygon's box
ClaimCandidates(g) ==
  SortedSeq({o \in unused : BoxMeet(BBox(PieceAt(deg, o)), BBox(dgeom[g]))})

\* what line 482 stores in geometries_df for the polygon g
WriteBack(g, G) == [geom EXCEPT ![g] = G]

first_claim ==
  /\ pc = "claim"
  /\ queue # << >>
  /\ \E g \in {Head(queue)} :
     \E r \in {Grab(g, ClaimCandidates(g), [G |-> dgeom[g], used |-> {}, fin |-> FALSE])} :
        /\ dgeom' = [dgeom EXCEPT ![g] = r.G]
        /\ geom' = WriteBack(g, r.G)
        /\ lost' = lost \cup (geom[g] \ geom'[g])
        /\ unused' = unused \ r.used
        /\ flagged' = IF r.fin THEN flagged \ {g} ELSE flagged
  /\ queue' = Tail(queue)
  /\ UNCHANGED << owners, close_gaps, min_rook_length, trial, pc, tower, holes, deg, gbox,
                  links, fragArea, nextId, newHoles, activity, adjs, queened,
                  log, stages, raised >>

\* line 491: the STRtree of the polygons is built once per degree
build_g_index ==
  /\ pc = "claim"
  /\ queue = << >>
  /\ gbox' = [p \in Polys |-> BBox(geom[p])]
  /\ queue' = SortedSeq(unused)
  /\ pc' = "perimeter"
  /\ UNCHANGED << owners, close_gaps, min_rook_length, trial, tower, holes, geom, dgeom,
                  flagged, deg, unused, links, fragArea, nextId, newHoles,
                  activity, adjs, queened, log, lost, stages, raised >>

\* a variant without the test of line 506 that the polygon owns the piece
PerimeterCandidatesAnyOwner(own, P) ==
  {g \in Present : BoxMeet(gbox[g], BBox(P)) /\ Touches(P, geom[g])}
\* shared_perimeters of the piece P: the polygons the query returns that own
\* it and whose boundary meets its boundary
PerimeterCandidates(own, P) ==
  {g \in Present : /\ BoxMeet(gbox[g], BBox(P))
                   /\ g \in own
                   /\ Touches(P, geom[g])}

\* sorted(shared_perimeters, key = length)[-1]: the sort is stable, so of the
\* polygons with the greatest length the last one listed is taken
MaxShared(cands, P) ==
  MaxOf({g \in cands : \A h \in cands : SharedLen(P, geom[g]) >= SharedLen(P, geom[h])})

assign_by_perimeter ==
  /\ pc = "perimeter"
  /\ queue # << >>
  /\ \E P \in {PieceAt(deg, Head(queue))} :
     \E cands \in {PerimeterCandidates(OwnersAt(deg, Head(queue)), P)} :
        IF cands # {}
        THEN /\ geom' = [geom EXCEPT ![MaxShared(cands, P)] = @ \cup P]
             /\ queue' = Tail(queue)
             /\ UNCHANGED << pc, raised >>
        ELSE /\ raised' = "NameError"
             /\ pc' = "raised"
             /\ UNCHANGED << geom, queue >>
  /\ UNCHANGED << owners, close_gaps, min_rook_length, trial, tower, holes, dgeom, flagged,
                  deg, unused, gbox, links, fragArea, nextId, newHoles,
                  activity, adjs, queened, log, lost, stages >>

\* a variant that leaves out a degree
next_level_skip ==
  /\ pc = "perimeter"
  /\ queue = << >>
  /\ EnterLevel(deg + 2)
  /\ queue' = SortedSeq(flagged)
  /\ UNCHANGED << owners, close_gaps, min_rook_length, trial, tower, holes, geom, dgeom,
                  flagged, gbox, links, fragArea, nextId, newHoles, activity,
                  adjs, queened, log, lost, stages, raised >>
\* lines 451-453: the next pass of the loop over the degrees
next_level ==
  /\ pc = "perimeter"
  /\ queue = << >>
  /\ EnterLevel(deg + 1)
  /\ queue' = SortedSeq(flagged)
  /\ UNCHANGED << owners, close_gaps, min_rook_length, trial, tower, holes, geom, dgeom,
                  flagged, gbox, links, fragArea, nextId, newHoles, activity,
                  adjs, queened, log, lost, stages, raised >>

(***************************************************************************)
(* close_gaps_jc and partial_fill_data_jc.  A hole is known by its         *)
(* boundary: the cyclic sequence of its sides (kind "L", a line shared     *)
(* with the atom beyond it) and, between two sides, the atoms that touch   *)
(* the hole in the corner only (kind "P").  The atom 0 is no atom.         *)
(***************************************************************************)
Own(a) ==
  LET P == {p \in Polys : a \in geom[p]}
  IN IF a = 0 \/ P = {} THEN 0 ELSE MinOf(P)

RECURSIVE Flatten(_)
Flatten(ss) == IF ss = << >> THEN << >> ELSE Head(ss) \o Flatten(Tail(ss))

Off(n, b, i) == IF i = b THEN n ELSE (i - b + n) % n
CycSeq(it, a, cnt) == [k \in 1..cnt |-> it[((a + k - 2) % Len(it)) + 1]]
CycRange(n, a, b) == IF a <= b THEN a..b ELSE (a..n) \cup (1..b)
Span(n, a, b) == ((b - a + n) % n) + 1
\* the items strictly between the positions a and b, going forward
Between(it, a, b) == CycSeq(it, (a % Len(it)) + 1, (b - a - 1 + Len(it)) % Len(it))

\* the polygons an item sequence touches
Targets(it) == {Own(it[i].atom) : i \in 1..Len(it)} \ {0}

\* the items of the polygon that follow the side b of another owner, up to
\* the next such side
SegAfter(n, ins, brks, b) ==
  LET lim == MinOf({Off(n, b, i) : i \in brks})
  IN {i \in ins : Off(n, b, i) < lim}

\* the row made of the items sg, which follow the position b
RunOn(it, p, b, sg) ==
  LET n == Len(it)
      offs == {Off(n, b, i) : i \in sg}
  IN [target |-> p,
      kind |-> IF \E i \in sg : it[i].kind = "L" THEN "L" ELSE "P",
      len |-> SumFn([i \in sg |-> it[i].len]),
      first |-> ((b + MinOf(offs) - 1) % n) + 1,
      last |-> ((b + MaxOf(offs) - 1) % n) + 1]

\* the connected components of the intersection of the hole boundary with the
\* polygon p: the runs of its items that no side of another owner interrupts
RunsOf(it, p) ==
  LET n == Len(it)
      ins == {i \in 1..n : Own(it[i].atom) = p}
      brks == {i \in 1..n : Own(it[i].atom) # p /\ it[i].kind = "L"}
      starts == SortedSeq({b \in brks : SegAfter(n, ins, brks, b) # {}})
  IN IF ins = {} THEN << >>
     ELSE IF brks = {} THEN << RunOn(it, p, n, ins) >>
     ELSE [k \in 1..Len(starts) |->
             RunOn(it, p, starts[k], SegAfter(n, ins, brks, starts[k]))]

\* hole_boundaries_df of one hole: its rows sorted by target polygon
Rows(it) ==
  LET ts == SortedSeq(Targets(it))
  IN Flatten([k \in 1..Len(ts) |-> RunsOf(it, ts[k])])

\* the length of the sides that lie between two rows, on the way from the end
\* of X to the start of Y
ArcLen(it, X, Y) ==
  LET mid == Between(it, X.last, Y.first)
  IN SumFn([k \in 1..Len(mid) |-> mid[k].len])

\* distance of two rows: 0 if they meet, else the shorter way round
RowDistance(it, X, Y) ==
  LET n == Len(it)
  IN IF CycRange(n, X.first, X.last) \cap CycRange(n, Y.first, Y.last) # {}
     THEN 0
     ELSE Min2(ArcLen(it, X, Y), ArcLen(it, Y, X))

\* poly_distances, sorted by distance (the sort is stable)
RECURSIVE SortPairs(_)
SortPairs(S) ==
  IF S = {} THEN << >>
  ELSE LET m == CHOOSE x \in S : \A y \in S :
                  \/ x[3] < y[3]
                  \/ x[3] = y[3] /\ x[1] < y[1]
                  \/ x[3] = y[3] /\ x[1] = y[1] /\ x[2] <= y[2]
       IN << m >> \o SortPairs(S \ {m})

\* the triples << i, j, distance >> of the rows i < j that do not meet
DistanceData(it, rows) ==
  LET D == {<< q[1], q[2], RowDistance(it, rows[q[1]], rows[q[2]]) >> :
              q \in {r \in (1..Len(rows)) \X (1..Len(rows)) : r[2] > r[1]}}
  IN SortPairs({t \in D : t[3] # 0})

\* a pair can give two disjoint segments only if neither row is a point
Splittable(X, Y) == X.kind = "L" /\ Y.kind = "L"

\* the sides of the row X, in the order of the boundary
SidesOf(it, X) ==
  LET all == CycSeq(it, X.first, Span(Len(it), X.first, X.last))
  IN SelectSeq(all, LAMBDA e : e.kind = "L" /\ Own(e.atom) = X.target)

\* a new hole meets the row it was cut from in the end point of the segment
Contact(e) == [atom |-> e.atom, kind |-> "P", len |-> 0]

\* the hole left on the way from the row X to the row Y after the piece between
\* two segments from X to Y went to a polygon; s is the atom of that piece
SubHole(h, X, Y, s, id) ==
  LET it == h.items
      mid == Between(it, X.last, Y.first)
      xs == SidesOf(it, X)
      ys == SidesOf(it, Y)
  IN [id |-> id, parent |-> h.id, area |-> h.area \div 4,
      items |-> << Contact(xs[Len(xs)]) >> \o mid \o << Contact(ys[1]) >>
                \o << [atom |-> s, kind |-> "L", len |-> RowDistance(it, X, Y)] >>]

\* if the way from X to Y is one side only, a segment may run along it and
\* cut nothing off
AlongSide(it, X, Y) ==
  LET mid == Between(it, X.last, Y.first)
  IN IF Cardinality({k \in 1..Len(mid) : mid[k].kind = "L"}) = 1
     THEN BOOLEAN ELSE {FALSE}

FragId(h, k) == 100 * HostCell(h.id) + nextId + k

\* a variant in which a filled hole adds nothing
HoleAtomsNone(h) == {}
\* the atoms a hole adds to the polygon that receives it whole
HoleAtoms(h) == IF IsCell(h.id) THEN AtomsOf({h.id}) ELSE {h.id}
SideLinks(id, its) ==
  {<< id, its[k].atom, its[k].len >> :
      k \in {i \in 1..Len(its) : its[i].kind = "L" /\ its[i].atom # 0}}
FillLinks(h) == IF IsCell(h.id) THEN {} ELSE SideLinks(h.id, h.items)
FillArea(h) == IF IsCell(h.id) THEN fragArea ELSE fragArea @@ (h.id :> h.area)

\* the row with the greatest length; of several the last one (stable sort)
LastMax(lens) ==
  MaxOf({k \in 1..Len(lens) : \A j \in 1..Len(lens) : lens[k] >= lens[j]})

\* lines 562-577: the length used is that of the whole boundary shared with
\* the polygon of the row
TotalShared(it, p) ==
  SumFn([i \in {j \in 1..Len(it) : Own(it[j].atom) = p} |-> it[i].len])

\* a variant that runs the disconnection repair first
AfterReconstructorRepair(cg) == "repair"
\* lines 244-246: the gap closer runs next if it was asked for
AfterReconstructor(cg) == IF cg THEN "gaps" ELSE "repair"

enter_close_gaps ==
  /\ pc = "reconstructed"
  /\ pc' = AfterReconstructor(close_gaps)
  /\ stages' = IF pc' = "gaps" THEN Append(stages, "close_gaps") ELSE stages
  /\ activity' = FALSE
  /\ newHoles' = << >>
  /\ UNCHANGED << owners, close_gaps, min_rook_length, trial, tower, holes, geom, dgeom,
                  flagged, deg, unused, queue, gbox, links, fragArea, nextId,
                  adjs, queened, log, lost, raised >>

fill_hole ==
  /\ pc = "gaps"
  /\ holes # << >>
  /\ Cardinality(Targets(Head(holes).items)) <= 3
  /\ \E h \in {Head(holes)} : \E rows \in {Rows(h.items)} :
     LET lens == [k \in 1..Len(rows) |-> TotalShared(h.items, rows[k].target)]
     IN IF rows = << >>
        THEN /\ raised' = "IndexError"
             /\ pc' = "raised"
             /\ UNCHANGED << geom, holes, links, fragArea, activity >>
        ELSE /\ geom' = [geom EXCEPT ![rows[LastMax(lens)].target] = @ \cup HoleAtoms(h)]
             /\ links' = links \cup FillLinks(h)
             /\ fragArea' = FillArea(h)
             /\ holes' = Tail(holes)
             /\ activity' = TRUE
             /\ UNCHANGED << pc, raised >>
  /\ trial' = NoTrial
  /\ UNCHANGED << owners, close_gaps, min_rook_length, tower, dgeom, flagged, deg,
                  unused, queue, gbox, nextId, newHoles, adjs, queened, log,
                  lost, stages >>

\* partial_fill_data_jc found no pair: the whole hole goes to the polygon of
\* the row that is longest by itself (lines 743-757)
Fallback(h, rows) ==
  LET lens == [k \in 1..Len(rows) |-> rows[k].len]
  IN /\ geom' = [geom EXCEPT ![rows[LastMax(lens)].target] = @ \cup HoleAtoms(h)]
     /\ links' = links \cup FillLinks(h)
     /\ fragArea' = FillArea(h)
     /\ holes' = Tail(holes)
     /\ UNCHANGED << pc, raised, nextId, newHoles, activity >>

\* partial_fill_data_jc split the hole between the rows X and Y: li and lj are
\* the lengths the piece shares with them, d1 and d2 say on which ways round
\* the segment runs along the boundary
SplitHole(h, X, Y, li, lj, d1, d2) ==
  LET s == FragId(h, 0)
      subs == (IF d1 THEN << >> ELSE << SubHole(h, X, Y, s, FragId(h, 1)) >>)
              \o (IF d2 THEN << >> ELSE << SubHole(h, Y, X, s, FragId(h, 2)) >>)
      along == (IF d1 THEN Between(h.items, X.last, Y.first) ELSE << >>)
               \o (IF d2 THEN Between(h.items, Y.last, X.first) ELSE << >>)
      to == IF li > lj THEN X.target ELSE Y.target
  IN IF li = lj
     THEN /\ raised' = "UnboundLocalError"
          /\ pc' = "raised"
          /\ UNCHANGED << geom, holes, links, fragArea, nextId, newHoles, activity >>
     ELSE /\ geom' = [geom EXCEPT ![to] = @ \cup {s}]
          /\ links' = links \cup SideLinks(s, SidesOf(h.items, X) \o SidesOf(h.items, Y) \o along)
          /\ fragArea' = fragArea @@ (s :> (h.area - Len(subs) * (h.area \div 4)))
          /\ nextId' = nextId + 3
          /\ holes' = Tail(holes)
          /\ newHoles' = newHoles \o subs
          /\ activity' = (activity \/ subs # << >>)
          /\ UNCHANGED << pc, raised >>

\* the state of partial_fill_data_jc before its while loop: rows is the number
\* of rows of hole_boundaries_df, pairs is
\* distance_data_sorted as it was built, tried counts the pairs looked at so
\* far, and ok holds the positions of the pairs for which two disjoint
\* segments split the hole
StartTrial(rows, dd, ok) ==
  [kind |-> "trying", rows |-> Len(rows), pairs |-> dd, ok |-> ok, tried |-> 0,
   li |-> 0, lj |-> 0]

\* a variant that never stops at the first pair of the list
RetryStepSkipFirst(t) ==
  IF t.tried >= Len(t.pairs) THEN [t EXCEPT !.kind = "fallback"]
  ELSE IF (t.tried + 1) \in t.ok /\ t.tried > 0
       THEN [t EXCEPT !.kind = "split", !.tried = @ + 1]
  ELSE [t EXCEPT !.tried = @ + 1]
\* one pass of the while loop of lines 637-738, or the exit from it
RetryStep(t) ==
  IF t.tried >= Len(t.pairs) THEN [t EXCEPT !.kind = "fallback"]
  ELSE IF (t.tried + 1) \in t.ok THEN [t EXCEPT !.kind = "split", !.tried = @ + 1]
  ELSE [t EXCEPT !.tried = @ + 1]

\* the whole loop
RECURSIVE Retry(_)
Retry(t) == IF t.kind # "trying" THEN t ELSE Retry(RetryStep(t))

\* the positions of the pairs that can give two disjoint segments at all
SplittablePairs(rows, dd) ==
  {k \in 1..Len(dd) : Splittable(rows[dd[k][1]], rows[dd[k][2]])}

partial_fill ==
  /\ pc = "gaps"
  /\ holes # << >>
  /\ Cardinality(Targets(Head(holes).items)) > 3
  /\ \E h \in {Head(holes)} : \E rows \in {Rows(h.items)} :
     \E dd \in {DistanceData(h.items, rows)} :
     \E ok \in SUBSET SplittablePairs(rows, dd) :
     \E r \in {Retry(StartTrial(rows, dd, ok))} :
        IF r.kind = "fallback"
        THEN /\ Fallback(h, rows)
             /\ trial' = r
        ELSE \E X \in {rows[dd[r.tried][1]]}, Y \in {rows[dd[r.tried][2]]} :
             \E d1 \in AlongSide(h.items, X, Y), d2 \in AlongSide(h.items, Y, X),
                li, lj \in 1..MaxShare :
                /\ SplitHole(h, X, Y, li, lj, d1, d2)
                /\ trial' = [r EXCEPT !.li = li, !.lj = lj]
  /\ UNCHANGED << owners, close_gaps, min_rook_length, tower, dgeom, flagged, deg,
                  unused, queue, gbox, adjs, queened, log, lost, stages >>

end_round ==
  /\ pc = "gaps"
  /\ holes = << >>
  /\ IF activity
     THEN /\ holes' = newHoles
          /\ UNCHANGED pc
     ELSE /\ pc' = "repair"
          /\ UNCHANGED holes
  /\ newHoles' = << >>
  /\ activity' = FALSE
  /\ trial' = NoTrial
  /\ UNCHANGED << owners, close_gaps, min_rook_length, tower, geom, dgeom, flagged,
                  deg, unused, queue, gbox, links, fragArea, nextId, adjs,
                  queened, log, lost, stages, raised >>

(***************************************************************************)
(* repair_gdf_jc, lines 249-315: the polygons that have more components    *)
(* than they had in the input give their smallest components away.         *)
(***************************************************************************)
MoreDisconnected(G) == {p \in Present : num_components_jc(G[p]) > NumOrig(p)}

\* component_areas_sorted: the components by area; the sort is stable
RECURSIVE SortByArea(_, _)
SortByArea(ks, G) ==
  IF ks = {} THEN << >>
  ELSE LET m == CHOOSE x \in ks : \A y \in ks :
                  \/ PartArea(x, G) < PartArea(y, G)
                  \/ PartArea(x, G) = PartArea(y, G) /\ MinOf(x) <= MinOf(y)
       IN << m >> \o SortByArea(ks \ {m}, G)

\* area < 0.0001 * big_area (line 286), in whole numbers
Negligible(area, big_area) == big_area >= 1 /\ area <= (big_area - 1) \div AreaRatio

\* shared_perimeters of a fragment K of the polygon g (lines 288-293)
FragmentCandidates(g, K, G) ==
  {g2 \in Present : /\ BoxMeet(gbox[g2], BBox(K))
                    /\ g2 # g
                    /\ Touches(K, G[g2])}
\* a variant that takes the candidate with the least shared length
FragmentTargetLeast(cands, K, G) ==
  MinOf({g2 \in cands : \A h \in cands : SharedLen(K, G[g2]) <= SharedLen(K, G[h])})
\* sorted(shared_perimeters, key = length)[-1] (line 295)
FragmentTarget(cands, K, G) ==
  MaxOf({g2 \in cands : \A h \in cands : SharedLen(K, G[g2]) >= SharedLen(K, G[h])})

\* the loop of lines 283-298 over the excess smallest components of g:
\* st = [G: the geometries, gone: the components taken out, err: IndexError]
RECURSIVE Peel(_, _, _, _)
Peel(g, frs, big_area, st) ==
  IF frs = << >> \/ st.err THEN st
  ELSE LET K == Head(frs)
           cands == FragmentCandidates(g, K, st.G)
           to == FragmentTarget(cands, K, st.G)
       IN IF ~Negligible(PartArea(K, st.G[g]), big_area)
          THEN Peel(g, Tail(frs), big_area, st)
          ELSE IF cands = {}
               THEN [st EXCEPT !.err = TRUE]
               ELSE Peel(g, Tail(frs), big_area,
                         [st EXCEPT !.G[to] = @ \cup Part(K, st.G[g]),
                                    !.gone = @ \cup {K}])

\* a variant that forgets to take the moved components out
component_num_list_all(ks, gone) == ks
\* component_num_list after the loop (lines 273, 287): the components that stay
component_num_list(ks, gone) == ks \ gone

start_repair ==
  /\ pc = "repair"
  /\ queue' = SortedSeq(MoreDisconnected(geom))
  /\ gbox' = [p \in Polys |-> BBox(geom[p])]
  /\ stages' = Append(stages, "repair")
  /\ pc' = "peel"
  /\ UNCHANGED << owners, close_gaps, min_rook_length, trial, tower, holes, geom, dgeom,
                  flagged, deg, unused, links, fragArea, nextId, newHoles,
                  activity, adjs, queened, log, lost, raised >>

repair_polygon ==
  /\ pc = "peel"
  /\ queue # << >>
  /\ \E g \in {Head(queue)} : \E ks \in {ComponentsOf(Bodies(geom[g]))} :
     \E r \in {Peel(g, SubSeq(SortByArea(ks, geom[g]), 1, Cardinality(ks) - NumOrig(g)),
                    Max2(GeomArea(geom[g]), GeomArea(OrigGeom(g))),
                    [G |-> geom, gone |-> {}, err |-> FALSE])} :
        IF r.err
        THEN /\ raised' = "IndexError"
             /\ pc' = "raised"
             /\ UNCHANGED << geom, queue, log >>
        ELSE /\ IF component_num_list(ks, r.gone) # {}
                THEN /\ geom' = [r.G EXCEPT ![g] =
                                   UNION {Part(K, geom[g]) : K \in component_num_list(ks, r.gone)}]
                     /\ UNCHANGED log
                ELSE /\ geom' = r.G
                     /\ log' = log \cup {[text |-> "badly disconnected", index |-> g]}
             /\ queue' = Tail(queue)
             /\ UNCHANGED << pc, raised >>
  /\ UNCHANGED << owners, close_gaps, min_rook_length, trial, tower, holes, dgeom, flagged,
                  deg, unused, gbox, links, fragArea, nextId, newHoles,
                  activity, adjs, queened, lost, stages >>

\* a variant without the second look
disconnected_df_2_none(G) == {}
\* lines 308-315: every polygon is looked at again
disconnected_df_2(G) == {p \in Present : num_components_jc(G[p]) > NumOrig(p)}

final_check ==
  /\ pc = "peel"
  /\ queue = << >>
  /\ log' = log \cup {[text |-> "may have been disconnected", index |-> p] :
                        p \in disconnected_df_2(geom)}
  /\ pc' = "checked"
  /\ UNCHANGED << owners, close_gaps, min_rook_length, trial, tower, holes, geom, dgeom,
                  flagged, deg, unused, queue, gbox, links, fragArea, nextId,
                  newHoles, activity, adjs, queened, lost, stages, raised >>

(***************************************************************************)
(* small_rook_to_queen_jc, lines 764-894.  The boundary of two polygons is *)
(* a set of cell edges; linemerge joins the edges that continue each       *)
(* other, and every resulting line is one adjacency.  With the lengths of  *)
(* the grid the only adjacencies shorter than min_rook_length are single   *)
(* vertical edges between two thin cells.  The disk around such an edge    *)
(* takes the four corner triangles next to it from the two thin cells, and *)
(* the pie wedges hand each triangle to the polygon above or below it.     *)
(***************************************************************************)
Ends(e) ==
  LET lo == MinOf(e)
  IN IF RowOf(lo) = RowOf(MaxOf(e))
     THEN {<< RowOf(lo) - 1, ColOf(lo) >>, << RowOf(lo), ColOf(lo) >>}
     ELSE {<< RowOf(lo), ColOf(lo) - 1 >>, << RowOf(lo), ColOf(lo) >>}

\* the boundary lines of the polygons P and Q (adjacencies_jc, lines 159-186)
Boundary(P, Q, G) ==
  {e \in {{a, b} : a \in CellsIn(G[P]), b \in CellsIn(G[Q])} :
     \E a \in e, b \in e : SharedAtomLen(a, b) > 0}

\* linemerge (line 778): two lines are joined where they alone end
Continues(e, f, B) ==
  \E v \in Ends(e) \cap Ends(f) : {x \in B : v \in Ends(x)} = {e, f}

RECURSIVE Merged(_, _, _)
Merged(B, frontier, seen) ==
  IF frontier = {} THEN seen
  ELSE LET nxt == {f \in B \ seen : \E e \in frontier : Continues(e, f, B)}
       IN Merged(B, nxt, seen \cup nxt)

RECURSIVE Lines(_, _)
Lines(B, rest) ==
  IF rest = {} THEN {}
  ELSE LET e == CHOOSE x \in rest : TRUE
           K == Merged(B, {e}, {e})
       IN {K} \cup Lines(B, rest \ K)

LineLen(K) == SumPairs({<< e, EdgeLen(MinOf(e), MaxOf(e)) >> : e \in K})

\* adj_df after explode (line 780): one row for every line of every pair
AdjRows(G) ==
  UNION {{[parents |-> pq, line |-> K] :
            K \in Lines(Boundary(pq[1], pq[2], G), Boundary(pq[1], pq[2], G))} :
         pq \in {x \in Polys \X Polys : x[1] < x[2]}}

AdjKey(r) ==
  LET e == CHOOSE x \in r.line : \A y \in r.line : MinOf(x) <= MinOf(y)
  IN ((r.parents[1] * 10 + r.parents[2]) * 100 + MinOf(e)) * 100 + MaxOf(e)

RECURSIVE AdjSeq(_)
AdjSeq(R) ==
  IF R = {} THEN << >>
  ELSE LET r == CHOOSE x \in R : \A y \in R : AdjKey(x) <= AdjKey(y)
       IN << r >> \o AdjSeq(R \ {r})

\* small_adj_df (line 791)
SmallAdj(G, m) ==
  AdjSeq({r \in AdjRows(G) : LineLen(r.line) < m})

\* the polygon that holds the cell c, 0 if there is none
HolderOf(G, c) ==
  IF \E p \in Polys : c \in G[p] THEN CHOOSE p \in Polys : c \in G[p] ELSE 0

\* the triangles inside the disk around the edge e, each with the cell whose
\* wedge covers it (lines 855-891)
Wedges(e) ==
  LET L == MinOf(e)
      R == MaxOf(e)
  IN {<< TriOf(L, 3), CellAt(RowOf(L) - 1, ColOf(L)) >>,
      << TriOf(L, 4), CellAt(RowOf(L) + 1, ColOf(L)) >>,
      << TriOf(R, 1), CellAt(RowOf(R) - 1, ColOf(R)) >>,
      << TriOf(R, 2), CellAt(RowOf(R) + 1, ColOf(R)) >>}

\* lines 798-801: the length of everything the two parents share
StillShort(r, G, m) ==
  LET adj_len == SharedLen(G[r.parents[1]], G[r.parents[2]])
  IN adj_len > 0 /\ adj_len < m

small_rook_to_queen_jc ==
  /\ pc = "checked"
  /\ min_rook_length # 0
  /\ adjs' = SmallAdj(geom, min_rook_length)
  /\ stages' = Append(stages, "rook")
  /\ pc' = "rook"
  /\ UNCHANGED << owners, close_gaps, min_rook_length, trial, tower, holes, geom, dgeom,
                  flagged, deg, unused, queue, gbox, links, fragArea, nextId,
                  newHoles, activity, queened, log, lost, raised >>

convert_adjacency ==
  /\ pc = "rook"
  /\ adjs # << >>
  /\ \E r \in {Head(adjs)} :
        IF StillShort(r, geom, min_rook_length)
        THEN \E e \in r.line : \E W \in {Wedges(e)} :
               /\ geom' = [p \in Polys |->
                    (geom[p] \ {w[1] : w \in W})
                       \cup {w[1] : w \in {x \in W : HolderOf(geom, x[2]) = p}}]
               /\ lost' = lost \cup {w[1] : w \in {x \in W : HolderOf(geom, x[2]) = 0}}
               /\ queened' = queened \cup {e}
        ELSE UNCHANGED << geom, lost, queened >>
  /\ adjs' = Tail(adjs)
  /\ UNCHANGED << owners, close_gaps, min_rook_length, trial, pc, tower, holes, dgeom,
                  flagged, deg, unused, queue, gbox, links, fragArea, nextId,
                  newHoles, activity, log, stages, raised >>

\* line 324
return_reconstructed ==
  /\ \/ pc = "checked" /\ min_rook_length = 0
     \/ pc = "rook" /\ adjs = << >>
  /\ pc' = "done"
  /\ UNCHANGED << owners, close_gaps, min_rook_length, trial, tower, holes, geom, dgeom,
                  flagged, deg, unused, queue, gbox, links, fragArea, nextId,
                  newHoles, activity, adjs, queened, log, lost, stages, raised,
           trial >>

(***************************************************************************)
(* Properties.                                                             *)
(***************************************************************************)
Returned == pc = "done"
Contested(c) == Cardinality(owners[c]) >= 2
InputHoles == {c \in Cells : owners[c] = {} /\ Enclosed(FaceOf(owners, c))}
OutArea == SumPairs({<< p, GeomArea(geom[p]) >> : p \in Polys})
UnionArea == GeomArea(AtomsOf({c \in Cells : owners[c] # {}}))
InputArea == SumPairs({<< p, GeomArea(OrigGeom(p)) >> : p \in Polys})
HoleArea == SumPairs({<< c, CellArea(c) >> : c \in InputHoles})

\* C1: when repair_gdf_jc has returned, no atom of the arrangement lies in the
\* geometry of two different output polygons
C1_NoOverlap ==
  Returned => \A p \in Polys, q \in Polys : p # q => geom[p] \cap geom[q] = {}
\* a run returned after a contested piece was assigned and a fragment was moved
\* to a neighbour by the disconnection repair
C1_Witness ==
  /\ Returned
  /\ \E p \in Polys : \E c \in CellsIn(geom[p]) : Contested(c) /\ p \notin owners[c]

\* C2 (as stated): when reconstruct_from_overlap_tower_jc returns, every piece
\* of every degree is part of the geometry of exactly one polygon
C2_EveryPieceOnce ==
  pc = "reconstructed" =>
     \A d \in 1..Len(tower) : \A o \in 1..Len(tower[d]) :
        Cardinality({p \in Polys : tower[d][o] \subseteq geom[p]}) = 1

\* C3: when reconstruct_from_overlap_tower_jc returns, whatever lies in the
\* new geometry of a polygon p is part of a piece that has p among its owners
C3_OwnersOnly ==
  pc = "reconstructed" =>
     \A p \in Polys : \A a \in geom[p] : p \in owners[HostCell(a)]
\* the Reconstructor returned after one contested piece was granted in the
\* first-claim phase and another was assigned by shared boundary length
C3_Witness ==
  /\ pc = "reconstructed"
  /\ \E p \in Polys : \E c \in CellsIn(dgeom[p]) : Contested(c)
  /\ \E q \in Polys : \E c \in CellsIn(geom[q] \ dgeom[q]) : Contested(c)

C5_AsStated ==
  ("close_gaps" \in SeqToSet(stages) /\ pc # "gaps") => (holes = << >> /\ newHoles = << >>)

\* C6 (as stated): every new hole that a split of a hole touching 4 or more
\* polygons leaves behind touches strictly fewer polygons than that hole did
C6_AsStated ==
  [][\E nh \in {newHoles'} :
       (pc = "gaps" /\ Len(nh) > Len(newHoles)) =>
          \A k \in (Len(newHoles) + 1)..Len(nh) :
             Cardinality(Targets(nh[k].items))' < Cardinality(Targets(Head(holes).items))]_vars

\* C7 (as stated): after a run with min_rook_length = m no two output polygons
\* share a connected boundary line of positive length smaller than m
C7_AsStated ==
  (Returned /\ min_rook_length # 0) =>
     \A r \in AdjRows(geom) : LineLen(r.line) >= min_rook_length

\* C8: after the disconnection-repair pass every polygon has at most as many
\* components as in the input, or a warning naming its index was printed
C8_WarnedOrWhole ==
  pc = "checked" =>
     \A p \in Polys : \/ num_components_jc(geom[p]) <= NumOrig(p)
                      \/ \E l \in log : l.index = p
\* the pass is over, a polygon is left with more components than it had in
\* the input, and the warning for it is in the log
C8_Witness ==
  /\ pc = "checked"
  /\ \E p \in Polys : /\ num_components_jc(geom[p]) > NumOrig(p)
                       /\ \E l \in log : l.index = p

\* the stages in the order of the code, for the given arguments
StageOrder(cg, m) ==
  << "arrangement", "classify", "reconstruct" >>
     \o (IF cg THEN << "close_gaps" >> ELSE << >>)
     \o << "repair" >>
     \o (IF m # 0 THEN << "rook" >> ELSE << >>)

\* C9 (as stated): the disconnection repair is over before the gap closer starts
C9_AsStated ==
  \A i \in 1..Len(stages), j \in 1..Len(stages) :
     (stages[i] = "repair" /\ stages[j] = "close_gaps") => i < j
\* C9 (amended): the stages run in the order Arrangement Builder, Overlap
\* Classifier, Reconstructor, Gap Closer (if enabled), Disconnection Repair,
\* Rook-to-Queen Converter (if enabled)
C9_CodeOrder ==
  LET so == StageOrder(close_gaps, min_rook_length)
  IN /\ Len(stages) <= Len(so)
     /\ stages = SubSeq(so, 1, Len(stages))
     /\ Returned => stages = so
\* a run with both options returned after all six stages
C9_Witness ==
  /\ Returned
  /\ close_gaps
  /\ min_rook_length # 0
  /\ Len(stages) = 6

\* C10 (as stated): a contested piece that no owner's boundary meets, or a
\* peeled fragment without a neighbour, does not end the run with an exception
C10_AsStated == raised \notin {"NameError", "IndexError"}

\* C11 (as stated): a step in which partial_fill_data_jc falls back to merging
\* the whole hole into one neighbour, and a step in which the disconnection
\* repair adds a fragment to a neighbouring polygon, prints a diagnostic
C11_AsStated ==
  [][(\/ pc = "gaps" /\ holes' # holes /\ trial'.kind = "fallback"
      \/ /\ pc = "peel"
         /\ queue # << >>
         /\ \E p \in Polys \ {Head(queue)} : geom'[p] # geom[p])
       => log' # log]_vars

\* C12 (as stated): whenever a piece or a fragment is about to be looked up in
\* the tree of the polygons, the boxes the tree holds are the boxes of the
\* geometries as they are now
C12_AsStated ==
  (pc \in {"perimeter", "peel"} /\ queue # << >>) =>
     \A p \in Polys : gbox[p] = BBox(geom[p])

NoOverlaps == \A c \in Cells : ~Contested(c)

\* C13: if no piece of the input has two owners, the loop over the degrees of
\* reconstruct_from_overlap_tower_jc is never entered, no polygon is flagged,
\* and the function returns every polygon with exactly the pieces it owned
C13_CleanInputUnchanged ==
  NoOverlaps =>
     /\ pc \notin {"claim", "perimeter"}
     /\ flagged = {}
     /\ pc = "reconstructed" => \A p \in Polys : geom[p] = OrigGeom(p)
\* the Reconstructor returned on an input without overlaps in which a polygon
\* is made of two separate pieces
C13_Witness ==
  /\ pc = "reconstructed"
  /\ NoOverlaps
  /\ \E p \in Polys : Cardinality(CellComps(OrigCells(p))) >= 2

\* the piece o of degree d was unioned into a polygon at some time
WasAssigned(d, o) == tower[d][o] \subseteq (UNION {geom[p] : p \in Polys}) \cup lost
\* no polygon holds anything of the piece o of degree d
NotYetAssigned(d, o) == tower[d][o] \cap UNION {geom[p] : p \in Polys} = {}

\* C14: while the Reconstructor works on degree deg, every piece of a smaller
\* degree has been assigned and no piece of a greater degree has; and while
\* the first-claim phase of a degree lasts, no piece of that degree has been
\* assigned except those the flagged polygons took
C14_DegreeOrder ==
  pc \in {"claim", "perimeter", "reconstructed"} =>
     /\ \A d \in 2..Len(tower) : \A o \in 1..Len(tower[d]) :
           /\ d < deg => WasAssigned(d, o)
           /\ d > deg => NotYetAssigned(d, o)
     /\ pc = "claim" => \A o \in unused : NotYetAssigned(deg, o)
\* the pieces of degree 3 are being assigned by shared boundary length after a
\* flagged polygon took a piece of degree 2 in its first-claim phase
C14_Witness ==
  /\ pc = "perimeter"
  /\ deg = 3
  /\ queue # << >>
  /\ \E p \in Polys : \E c \in CellsIn(dgeom[p]) : Cardinality(owners[c]) = 2

\* the test of lines 472-474 for the polygon g and the piece o, on the
\* geometry g has now
Eligible(g, o) ==
  /\ g \in OwnersAt(deg, o)
  /\ SharedLen(dgeom[g], PieceAt(deg, o)) > 0

\* C15 (as stated): a flagged polygon whose first-claim phase at this degree
\* is over has its original number of components again, or no unused piece
\* of the degree is owned by it and shares a line with its geometry
C15_AsStated ==
  pc = "claim" =>
     \A g \in flagged \ SeqToSet(queue) :
        \/ num_components_jc(dgeom[g]) = NumOrig(g)
        \/ \A o \in unused : ~Eligible(g, o)

\* C16 (as stated): a piece assigned by shared boundary length goes to one of
\* its owners, and no other owner shares a longer boundary with the piece,
\* measured on the geometries as they are when the piece is processed
C16_AsStated ==
  [][(pc = "perimeter" /\ queue # << >> /\ pc' = "perimeter") =>
        \E g \in OwnersAt(deg, Head(queue)) :
           /\ geom' = [geom EXCEPT ![g] = @ \cup PieceAt(deg, Head(queue))]
           /\ \A h \in OwnersAt(deg, Head(queue)) :
                 SharedLen(PieceAt(deg, Head(queue)), geom[g])
                    >= SharedLen(PieceAt(deg, Head(queue)), geom[h])]_vars

\* C17 (as stated): when the piece that is processed by shared boundary
\* length shares no line with any of its owners, a diagnostic is printed
C17_AsStated ==
  [][(/\ pc = "perimeter"
      /\ queue # << >>
      /\ \A g \in OwnersAt(deg, Head(queue)) :
            SharedLen(PieceAt(deg, Head(queue)), geom[g]) = 0)
       => log' # log]_vars

\* the components of the polygon g that may be moved: the excess smallest
\* ones (lines 271, 279, 283-284)
ExcessSmallest(g) ==
  LET ks == ComponentsOf(Bodies(geom[g]))
  IN SubSeq(SortByArea(ks, geom[g]), 1, Cardinality(ks) - NumOrig(g))
\* big_area of the polygon g (line 281)
BigArea(g) == Max2(GeomArea(geom[g]), GeomArea(OrigGeom(g)))

\* the components frs of g went, one after the other, each to exactly one
\* other polygon, and no polygon other than g shared a longer boundary with
\* the component at the time; G holds the geometries at that time, Gp the
\* geometries after the step
RECURSIVE MovedToGreatest(_, _, _, _)
MovedToGreatest(g, frs, G, Gp) ==
  IF frs = << >> THEN TRUE
  ELSE LET K == Head(frs)
           F == Part(K, G[g])
           tos == {p \in Polys \ {g} : F \subseteq Gp[p]}
       IN /\ F \cap Gp[g] = {}
          /\ Cardinality(tos) = 1
          /\ \A p \in tos :
                /\ \A h \in Present \ {g} : SharedLen(K, G[p]) >= SharedLen(K, G[h])
                /\ MovedToGreatest(g, Tail(frs), [G EXCEPT ![p] = @ \cup F], Gp)

HolesArea(hs) == SumFn([k \in 1..Len(hs) |-> hs[k].area])

\* C19 (as stated): in a step in which partial_fill_data_jc splits the hole H,
\* the sliver is added to exactly one of the two target polygons, the one that
\* shares more of its boundary, the other fragments are appended to the holes
\* of the next round, and the sliver and the new holes have the area of H
C19_AsStated ==
  [][(pc = "gaps" /\ holes # << >> /\ trial'.kind = "split") =>
        \E h \in {Head(holes)} : \E s \in {FragId(h, 0)} :
        \E rows \in {Rows(h.items)} : \E pr \in {trial'.pairs[trial'.tried]} :
           /\ \E p \in {rows[pr[1]].target, rows[pr[2]].target} :
                 /\ geom' = [geom EXCEPT ![p] = @ \cup {s}]
                 /\ trial'.li > trial'.lj => p = rows[pr[1]].target
                 /\ trial'.li < trial'.lj => p = rows[pr[2]].target
           /\ Len(newHoles') >= Len(newHoles)
           /\ SubSeq(newHoles', 1, Len(newHoles)) = newHoles
           /\ Len(newHoles') > Len(newHoles) => activity'
           /\ fragArea'[s] + HolesArea(newHoles') - HolesArea(newHoles) = h.area]_vars

\* C21: when no candidate pair works, partial_fill_data_jc returns the whole
\* hole as the piece, no new holes, and as target a polygon whose total
\* boundary length shared with the hole is the greatest among the polygons
\* that touch the hole, also when a polygon touches it in several rows.
GreatestTotal(it) ==
  {p \in Targets(it) : \A q \in Targets(it) : TotalShared(it, p) >= TotalShared(it, q)}

C21_AsStated ==
  [][(pc = "gaps" /\ holes # << >> /\ trial'.kind = "fallback") =>
       /\ holes' = Tail(holes)
       /\ newHoles' = newHoles
       /\ \E p \in GreatestTotal(Head(holes).items) :
            /\ geom'[p] = geom[p] \cup HoleAtoms(Head(holes))
            /\ \A q \in Polys \ {p} : geom'[q] = geom[q]]_vars

\* C22: every new hole returned by a successful split has strictly fewer
\* boundary components (rows of its boundary table) than the hole that was
\* split.
NewHoleRows == [k \in 1..Len(newHoles) |-> Len(Rows(newHoles[k].items))]

\* the new holes of the split just made carry the two latest numbers
NewHolesOfSplit ==
  {k \in 1..Len(newHoles) :
     newHoles[k].id - 100 * HostCell(newHoles[k].id) \in {nextId - 2, nextId - 1}}

TotalArea(G) == SumFn([p \in Polys |-> GeomArea(G[p])])
DiskPieces(E) == UNION {{w[1] : w \in Wedges(e)} : e \in E}

C23_AsStated ==
  [][(pc = "rook" /\ queened' # queened) =>
       LET D == DiskPieces(queened' \ queened)
       IN /\ \A t \in D : Cardinality({p \in Polys : t \in geom'[p]}) = 1
          /\ \A p \in Polys : geom'[p] \ D = geom[p] \ D
          /\ TotalArea(geom') = TotalArea(geom)]_vars

\* C24: in the Reconstructor a piece that was unioned into the geometry of a
\* polygon stays in it until reconstruct_from_overlap_tower_jc returns; the
\* write-back of a flagged polygon removes nothing from it.
C24_AsStated ==
  [][(pc \in {"order1", "claim", "perimeter"}) =>
        \A p \in Polys : geom[p] \subseteq geom'[p]]_vars

\* C25: for a hole that touches four or more polygons partial_fill_data_jc
\* returns a target polygon, a piece and a list of new holes and raises
\* nothing, also when the sliver of a valid split shares boundaries of equal
\* length with the two target components.
C25_AsStated ==
  (trial.kind \in {"split", "fallback"}) => raised = "none"

Next ==
  \/ building_blocks_jc
  \/ assign_order1
  \/ first_claim
  \/ build_g_index
  \/ assign_by_perimeter
  \/ next_level
  \/ enter_close_gaps
  \/ fill_hole
  \/ partial_fill
  \/ end_round
  \/ start_repair
  \/ repair_polygon
  \/ final_check
  \/ small_rook_to_queen_jc
  \/ convert_adjacency
  \/ return_reconstructed

Spec == Init /\ [][Next]_vars

(***************************************************************************)
(* partial_fill_data_jc by itself, pass by pass: the calls on the first    *)
(* hole of an input without overlaps, for every choice of the pairs that   *)
(* give a valid split.  A loop that has started runs on, so its passes are *)
(* weakly fair.                                                            *)
(***************************************************************************)
InitRetry ==
  /\ owners \in Inputs
  /\ \A c \in Cells : Cardinality(owners[c]) <= 1
  /\ close_gaps = TRUE
  /\ min_rook_length = 0
  /\ pc = "call"
  /\ tower = TowerOf(owners)
  /\ holes = HolesOf(owners)
  /\ geom = [p \in Polys |-> OrigGeom(p)]
  /\ dgeom = [p \in Polys |-> {}]
  /\ flagged = {}
  /\ deg = 0
  /\ unused = {}
  /\ queue = << >>
  /\ gbox = [p \in Polys |-> << >>]
  /\ links = {}
  /\ fragArea = << >>
  /\ nextId = 1
  /\ newHoles = << >>
  /\ activity = FALSE
  /\ adjs = << >>
  /\ queened = {}
  /\ log = {}
  /\ lost = {}
  /\ stages = << "arrangement", "classify", "reconstruct", "close_gaps" >>
  /\ raised = "none"
  /\ holes # << >>
  /\ Cardinality(Targets(Head(holes).items)) > 3
  /\ trial = NoTrial

\* lines 619-635: the distances are computed and sorted
sort_distance_data ==
  /\ pc = "call"
  /\ \E rows \in {Rows(Head(holes).items)} :
     \E dd \in {DistanceData(Head(holes).items, rows)} :
     \E ok \in SUBSET SplittablePairs(rows, dd) :
        trial' = StartTrial(rows, dd, ok)
  /\ pc' = "pfd"
  /\ UNCHANGED << owners, close_gaps, min_rook_length, tower, holes, geom, dgeom,
                  flagged, deg, unused, queue, gbox, links, fragArea, nextId,
                  newHoles, activity, adjs, queened, log, lost, stages, raised >>

\* lines 637-743: one pass of the loop, or the exit from it
while_pair_not_found ==
  /\ pc = "pfd"
  /\ trial.kind = "trying"
  /\ trial' = RetryStep(trial)
  /\ UNCHANGED << owners, close_gaps, min_rook_length, pc, tower, holes, geom, dgeom,
                  flagged, deg, unused, queue, gbox, links, fragArea, nextId,
                  newHoles, activity, adjs, queened, log, lost, stages, raised >>

NextRetry ==
  \/ sort_distance_data
  \/ while_pair_not_found

SpecRetry == InitRetry /\ [][NextRetry]_vars /\ WF_vars(while_pair_not_found)

(***************************************************************************)
(* close_gaps_jc on one hole of any shape.  The hole is given as           *)
(* partial_fill_data_jc gets it: by the rows of its boundary.  The         *)
(* boundary has HoleSides items; an item of length 0 is a point of         *)
(* contact.  The item k lies on the cell Ring[k], which belongs to one     *)
(* polygon, or to none: reconstruct_from_overlap_tower_jc can hand over    *)
(* geometries in which a piece belongs to no polygon (lines 449 and 482).  *)
(***************************************************************************)
HoleSides == 5
MaxSide == 2
HoleId == 500
Ring == << 2, 3, 6, 9, 8, 7, 4, 1 >>

BoundaryOf(own, len) ==
  [k \in 1..HoleSides |->
     [atom |-> Ring[k], kind |-> IF len[k] = 0 THEN "P" ELSE "L", len |-> len[k]]]

InitGaps ==
  /\ \E own \in [1..HoleSides -> 0..NumPolys], len \in [1..HoleSides -> 0..MaxSide] :
        /\ \A k \in 1..HoleSides :
              own[k] <= 1 + Cardinality({own[j] : j \in 1..(k - 1)} \ {0})
        /\ Polys \subseteq {own[k] : k \in 1..HoleSides}
        /\ owners = [c \in Cells |->
                       {own[k] : k \in {i \in 1..HoleSides : Ring[i] = c}} \ {0}]
        /\ geom = [p \in Polys |-> {Ring[k] : k \in {i \in 1..HoleSides : own[i] = p}}]
        /\ holes = << [id |-> HoleId, parent |-> 0, area |-> 4 * ColLen,
                       items |-> BoundaryOf(own, len)] >>
  /\ close_gaps = TRUE
  /\ min_rook_length = 0
  /\ pc = "gaps"
  /\ tower = << >>
  /\ dgeom = geom
  /\ flagged = {}
  /\ deg = 0
  /\ unused = {}
  /\ queue = << >>
  /\ gbox = [p \in Polys |-> << >>]
  /\ links = {}
  /\ fragArea = << >>
  /\ nextId = 1
  /\ newHoles = << >>
  /\ activity = FALSE
  /\ adjs = << >>
  /\ queened = {}
  /\ log = {}
  /\ lost = {}
  /\ stages = << "arrangement", "classify", "reconstruct", "close_gaps" >>
  /\ raised = "none"
  /\ trial = NoTrial

NextGaps ==
  \/ fill_hole
  \/ partial_fill
  \/ end_round

SpecGaps == InitGaps /\ [][NextGaps]_vars


\* the pairs i < j of boundary components of the hole in hand that do not meet
FarPairs ==
  LET it == Head(holes).items
      rows == Rows(it)
  IN {q \in (1..Len(rows)) \X (1..Len(rows)) :
        q[1] < q[2] /\ RowDistance(it, rows[q[1]], rows[q[2]]) > 0}

\* what holds at every point of a call of partial_fill_data_jc
RetryInOrder ==
  trial.kind # "none" =>
     LET dd == trial.pairs
         n == Len(dd)
         failed == IF trial.kind = "split" THEN trial.tried - 1 ELSE trial.tried
     IN /\ {<< dd[k][1], dd[k][2] >> : k \in 1..n} = FarPairs
        /\ Cardinality(FarPairs) = n
        /\ \A j \in 1..n, k \in 1..n : j < k => dd[j][3] <= dd[k][3]
        /\ trial.tried <= n
        /\ \A k \in 1..failed : k \notin trial.ok
        /\ trial.kind = "split" => trial.tried \in trial.ok
        /\ trial.kind = "fallback" => (trial.tried = n /\ trial.ok = {})

\* C20: partial_fill_data_jc looks at the pairs of boundary components that do
\* not meet in nondecreasing order of distance, each pair once, stops at the
\* first pair that gives a valid split, falls back to the whole hole only
\* when every pair has failed, and its loop comes to an end
C20_RetryOrder ==
  /\ []RetryInOrder
  /\ ((pc = "pfd") ~> (trial.kind \in {"split", "fallback"}))
\* the loop has stopped at the second pair of the list after the first failed
C20_Witness ==
  /\ trial.kind = "split"
  /\ trial.tried = 2
  /\ Len(trial.pairs) >= 2
====
